---------------------------- MODULE Spec2Model ----------------------------
(***************************************************************************)
(* Model of src/notebook.ipynb: the Gaussian kernel generators, the        *)
(* numba-compiled convolve loop nest and the main pipeline (joint and      *)
(* separable mode).                                                        *)
(*                                                                         *)
(* Samples and weights are floating-point numbers in the source.  They are *)
(* modelled as exact rationals <<n, d>> (d > 0, lowest terms) together     *)
(* with two non-numbers: NaN and Indet (the value of a read outside an     *)
(* array, which numba does not bounds-check).  Rounding is not modelled.   *)
(***************************************************************************)
EXTENDS Integers, Sequences, FiniteSets, TLC

(***************************************************************************)
(* Bounds of the model.                                                    *)
(***************************************************************************)
MaxC == 2
MaxH == 3
MaxW == 3
MaxVal == 1
MaxPad == 0
MaxSide == 2
MaxK == 3
MaxPar == 4
MaxElems == 9

(***************************************************************************)
(* Exact arithmetic on samples.                                            *)
(***************************************************************************)
Abs(n) == IF n < 0 THEN -n ELSE n

Max(a, b) == IF a > b THEN a ELSE b

Min(a, b) == IF a < b THEN a ELSE b

RECURSIVE GCD(_, _)
GCD(a, b) == IF b = 0 THEN a ELSE GCD(b, a % b)

RECURSIVE Pow(_, _)
Pow(b, e) == IF e = 0 THEN 1 ELSE b * Pow(b, e - 1)

NaN == <<0, 0>>

Indet == <<1, 0>>

IsNum(v) == v[2] > 0

Rat(n, d) == LET g == GCD(Abs(n), d) IN <<n \div g, d \div g>>

Num(n) == <<n, 1>>

Zero == <<0, 1>>

\* the result of an operation one of whose operands is not a number
NonNum(a, b) == IF a = Indet \/ b = Indet THEN Indet ELSE NaN

FAdd(a, b) ==
    IF ~(IsNum(a) /\ IsNum(b)) THEN NonNum(a, b)
    ELSE LET g == GCD(a[2], b[2])
             l == (a[2] \div g) * b[2]
         IN Rat(a[1] * (l \div a[2]) + b[1] * (l \div b[2]), l)

FMul(a, b) ==
    IF ~(IsNum(a) /\ IsNum(b)) THEN NonNum(a, b)
    ELSE LET g1 == GCD(Abs(a[1]), b[2])
             g2 == GCD(Abs(b[1]), a[2])
         IN <<(a[1] \div g1) * (b[1] \div g2), (a[2] \div g2) * (b[2] \div g1)>>

\* a / b for b a non-zero number, or either operand not a number
FDiv(a, b) ==
    IF ~(IsNum(a) /\ IsNum(b)) THEN NonNum(a, b)
    ELSE FMul(a, IF b[1] < 0 THEN <<-b[2], -b[1]>> ELSE <<b[2], b[1]>>)

\* numpy's array / scalar: a zero divisor gives nan (0/0), never an exception
NpDiv(a, b) == IF IsNum(b) /\ b[1] = 0 THEN NaN ELSE FDiv(a, b)

\* a <= b for two numbers
FLeq(a, b) == a[1] * b[2] <= b[1] * a[2]

(***************************************************************************)
(* Arrays.  An image buffer is [shape |-> <<C, H, W>>, data |-> f] with f  *)
(* defined on the index triples <<c, y, x>>; a kernel is                   *)
(* [h |-> kH, w |-> kW, wt |-> f] with f defined on the pairs <<i, j>>.    *)
(***************************************************************************)
Idx(shape) == (0 .. shape[1] - 1) \X (0 .. shape[2] - 1) \X (0 .. shape[3] - 1)

KIdx(h, w) == (0 .. h - 1) \X (0 .. w - 1)

\* np.zeros(shape, dtype=np.float32)
NpZeros(shape) == [shape |-> shape, data |-> [i \in Idx(shape) |-> Zero]]

NoBuffer == NpZeros(<<0, 0, 0>>)

\* kernel_1d.transpose()
Transpose(k) == [h |-> k.w, w |-> k.h, wt |-> [p \in KIdx(k.w, k.h) |-> k.wt[<<p[2], p[1]>>]]]

(***************************************************************************)
(* Kernel generation.  sigma is a real number; the model knows it by its   *)
(* sign sgn and by the rational g = gn/gd = exp(-1/(2 sigma^2)), so that   *)
(* exp(-e/(2 sigma^2)) = g^e exactly for every integer e.                  *)
(***************************************************************************)
SupportFactor == 3

\* least n >= 1 with n >= |sigma|, i.e. with (1/g)^(2 n^2) >= e  (2.718 < e < 2.719)
CeilAbs(sigma) ==
    CHOOSE n \in 1 .. 3 :
        /\ Pow(sigma.gd, 2 * n * n) * 1000 >= 2719 * Pow(sigma.gn, 2 * n * n)
        /\ \A m \in 1 .. n - 1 :
               Pow(sigma.gd, 2 * m * m) * 1000 < 2719 * Pow(sigma.gn, 2 * m * m)

\* np.ceil(sigma); |sigma| is never an integer for rational g
NpCeil(sigma) ==
    IF sigma.sgn = 0 THEN 0
    ELSE IF sigma.sgn > 0 THEN CeilAbs(sigma)
    ELSE -(CeilAbs(sigma) - 1)

KernelRadius(sigma) == NpCeil(sigma) * SupportFactor

\* the length of np.arange(-kernel_radius, kernel_radius + 1.)
AxLen(sigma) == Max(0, 2 * KernelRadius(sigma) + 1)

\* ax[k]
Ax(sigma, k) == k - KernelRadius(sigma)

\* np.exp(-e / (2. * sigma**2)) for an integer e >= 0
ExpCell(sigma, e) ==
    IF sigma.sgn = 0 THEN (IF e = 0 THEN NaN ELSE Zero)
    ELSE Rat(Pow(sigma.gn, e), Pow(sigma.gd, e))

RECURSIVE SumRow(_, _, _)
\* the sum of the first n cells of row i of f
SumRow(f, i, n) ==
    IF n = 0 THEN Zero ELSE FAdd(SumRow(f, i, n - 1), f[<<i, n - 1>>])

RECURSIVE SumRows(_, _, _)
\* np.sum over the first m rows (of width w) of f
SumRows(f, w, m) ==
    IF m = 0 THEN Zero ELSE FAdd(SumRows(f, w, m - 1), SumRow(f, m - 1, w))

\* kernel / np.sum(kernel)
NormalizedKernel(h, w, raw) ==
    LET s == SumRows(raw, w, h)
    IN [h |-> h, w |-> w, wt |-> [p \in KIdx(h, w) |-> NpDiv(raw[p], s)]]

gaussian_kernel_2d(sigma) ==
    LET n == AxLen(sigma)
        raw == [p \in KIdx(n, n) |->
                   ExpCell(sigma, Ax(sigma, p[2]) * Ax(sigma, p[2])
                                  + Ax(sigma, p[1]) * Ax(sigma, p[1]))]
    IN NormalizedKernel(n, n, raw)

gaussian_kernel_1d(sigma) ==
    LET n == AxLen(sigma)
        raw == [p \in KIdx(1, n) |-> ExpCell(sigma, Ax(sigma, p[2]) * Ax(sigma, p[2]))]
    IN NormalizedKernel(1, n, raw)

(***************************************************************************)
(* Program state.                                                          *)
(*   sigma, seperate_filters   arguments of main                           *)
(*   kernel_1d, kernel_2d      locals of main                              *)
(*   mem                       the arrays img, intermediate, output        *)
(*   frame                     the running convolve call: its arguments    *)
(*                             (names of the arrays, the kernel), its loop *)
(*                             counters x, y, c, and which call of main it *)
(*                             is (pass; 0: convolve called on its own)    *)
(*   pc, err                   control state; the exception or signal that *)
(*                             ended the run                               *)
(*   pending                   pixels not yet computed, when the loop nest *)
(*                             is run in an arbitrary order                *)
(* History variables: calls (the convolve invocations so far), writes (how *)
(* often each element of each array was stored to by convolve), stray      *)
(* (stores outside the output array), readlog (which array the body read   *)
(* in which call), mem0 (the arrays when convolve was called, kept when    *)
(* the loop nest is run in an arbitrary order).                            *)
(***************************************************************************)
VARIABLES sigma, seperate_filters, kernel_1d, kernel_2d, mem, frame, pc, err,
          pending, calls, writes, stray, readlog, mem0

vars == <<sigma, seperate_filters, kernel_1d, kernel_2d, mem, frame, pc, err,
          pending, calls, writes, stray, readlog, mem0>>

Buffers == {"img", "intermediate", "output"}

NoKernel == [h |-> 0, w |-> 0, wt |-> [p \in KIdx(0, 0) |-> Zero]]

NoSigma == [sgn |-> 0, gn |-> 0, gd |-> 1]

(***************************************************************************)
(* convolve: the body of the loop nest for one (x, y, c).                  *)
(***************************************************************************)
kernel_halfh(k) == k.h \div 2

kernel_halfw(k) == k.w \div 2

\* the first column one too far to the right
x_min_OffByOne(k, x) == Max(0, x - (k.w \div 2) + 1)

x_min(k, x) == Max(0, x - kernel_halfw(k))

x_max(img, k, x) == Min(img.shape[3] - 1, x + kernel_halfw(k))

\* the first row computed from the half width of the kernel
y_min_HalfWidth(k, y) == Max(0, y - kernel_halfw(k))

y_min(k, y) == Max(0, y - kernel_halfh(k))

y_max(img, k, y) == Min(img.shape[2] - 1, y + kernel_halfh(k))

\* the number of iterations of the u loop, and of the v loop
UCount(img, k, x) == x_max(img, k, x) - x_min(k, x) + 1

VCount(img, k, y) == y_max(img, k, y) - y_min(k, y) + 1

\* the column subscript without the half width
KernelSubscript_NoOffset(k, y, x, v, u) == <<v - y + kernel_halfh(k), u - x>>

\* the subscript of kernel[v - y + kernel_halfh, u - x + kernel_halfw]
KernelSubscript(k, y, x, v, u) == <<v - y + kernel_halfh(k), u - x + kernel_halfw(k)>>

\* some iteration reads the kernel outside its bounds (no bounds check in njit)
ReadsOutsideKernel(img, k, y, x) ==
    \E u \in x_min(k, x) .. x_max(img, k, x), v \in y_min(k, y) .. y_max(img, k, y) :
        KernelSubscript(k, y, x, v, u) \notin KIdx(k.h, k.w)

RECURSIVE AccumulateV(_, _, _, _, _, _, _)
\* what the first n iterations of the v loop add to value and total, for one u
AccumulateV(img, k, c, y, x, u, n) ==
    IF n = 0 THEN [value |-> Zero, total |-> Zero]
    ELSE LET prev == AccumulateV(img, k, c, y, x, u, n - 1)
             v == y_min(k, y) + n - 1
             tmp == k.wt[KernelSubscript(k, y, x, v, u)]
         IN [value |-> FAdd(prev.value, FMul(img.data[<<c, v, u>>], tmp)),
             total |-> FAdd(prev.total, tmp)]

RECURSIVE Accumulate(_, _, _, _, _, _)
\* value and total after the first n iterations of the u loop (the sums are
\* exact, so the single accumulator of the source is summed column by column)
Accumulate(img, k, c, y, x, n) ==
    IF n = 0 THEN [value |-> Zero, total |-> Zero]
    ELSE LET prev == Accumulate(img, k, c, y, x, n - 1)
             col == AccumulateV(img, k, c, y, x, x_min(k, x) + n - 1, VCount(img, k, y))
         IN [value |-> FAdd(prev.value, col.value),
             total |-> FAdd(prev.total, col.total)]

\* the samples read from the array that is written
ReadBuffer_InPlace(fr) == fr.output

\* the array the loop body reads its samples from
ReadBuffer(fr) == fr.image

\* the array the loop body stores to
WriteBuffer(fr) == fr.output

\* the quotient taken by the sum of all the weights of the kernel
ComputeEffects_FullSum(img, k, c, y, x) ==
    LET acc == Accumulate(img, k, c, y, x, UCount(img, k, x))
        sum == SumRows(k.wt, k.w, k.h)
    IN IF IsNum(sum) /\ sum[1] = 0
       THEN {[kind |-> "raise", val |-> NaN]}
       ELSE {[kind |-> "store", val |-> FDiv(acc.value, sum)]}

(***************************************************************************)
(* What one execution of the body for (x, y, c) can do:                    *)
(*   store   output[c, y, x] = val                                         *)
(*   raise   ZeroDivisionError (value / total with total = 0)              *)
(*   stray   the store falls outside the output array                      *)
(*   segv    the process dies on an access outside an array                *)
(* A read outside the kernel yields an indeterminate weight, so the        *)
(* quotient is indeterminate, or the total is zero, or the process dies.   *)
(***************************************************************************)
ComputeEffects(img, k, c, y, x) ==
    IF ReadsOutsideKernel(img, k, y, x)
    THEN {[kind |-> "store", val |-> Indet], [kind |-> "raise", val |-> Indet],
          [kind |-> "segv", val |-> Indet]}
    ELSE LET acc == Accumulate(img, k, c, y, x, UCount(img, k, x))
         IN IF IsNum(acc.total) /\ acc.total[1] = 0
            THEN {[kind |-> "raise", val |-> NaN]}
            ELSE {[kind |-> "store", val |-> FDiv(acc.value, acc.total)]}

PixelEffects(m, fr, c, y, x) ==
    LET es == ComputeEffects(m[ReadBuffer(fr)], fr.kernel, c, y, x)
    IN IF <<c, y, x>> \in Idx(m[WriteBuffer(fr)].shape)
       THEN es
       ELSE (es \ {e \in es : e.kind = "store"})
            \cup (IF \E e \in es : e.kind = "store"
                  THEN {[kind |-> "stray", val |-> Indet], [kind |-> "segv", val |-> Indet]}
                  ELSE {})

\* the arrays after the effect e of the body for (x, y, c)
MemAfter(m, fr, c, y, x, e) ==
    IF e.kind = "store"
    THEN [m EXCEPT ![WriteBuffer(fr)].data[<<c, y, x>>] = e.val]
    ELSE m

\* the store counts after the effect e of the body for (x, y, c)
WritesAfter(w, fr, c, y, x, e) ==
    IF e.kind = "store"
    THEN [w EXCEPT ![WriteBuffer(fr)][<<c, y, x>>] = @ + 1]
    ELSE w

Continues(e) == e.kind \in {"store", "stray"}

ErrorOf(e) ==
    IF e.kind = "raise" THEN "ZeroDivisionError"
    ELSE IF e.kind = "segv" THEN "SIGSEGV" ELSE ""

(***************************************************************************)
(* convolve: the loop nest  for x: for y: for c.                           *)
(***************************************************************************)
\* the loop is at its last iteration
LastIteration(img, fr) ==
    /\ fr.c + 1 >= img.shape[1]
    /\ fr.y + 1 >= img.shape[2]
    /\ fr.x + 1 >= img.shape[3]

\* y keeps its value when x advances
NextIteration_NoRowReset(img, fr) ==
    IF fr.c + 1 < img.shape[1] THEN [fr EXCEPT !.c = fr.c + 1]
    ELSE IF fr.y + 1 < img.shape[2] THEN [fr EXCEPT !.c = 0, !.y = fr.y + 1]
    ELSE [fr EXCEPT !.c = 0, !.x = fr.x + 1]

\* the loop counters of the next iteration
NextIteration(img, fr) ==
    IF fr.c + 1 < img.shape[1] THEN [fr EXCEPT !.c = fr.c + 1]
    ELSE IF fr.y + 1 < img.shape[2] THEN [fr EXCEPT !.c = 0, !.y = fr.y + 1]
    ELSE [fr EXCEPT !.c = 0, !.y = 0, !.x = fr.x + 1]

NewFrame(image, output, kernel, pass) ==
    [image |-> image, output |-> output, kernel |-> kernel,
     x |-> 0, y |-> 0, c |-> 0, pass |-> pass]

NoFrame == NewFrame("", "", NoKernel, 0)

CallRecord(fr) ==
    [image |-> fr.image, output |-> fr.output, kh |-> fr.kernel.h, kw |-> fr.kernel.w]

\* the loop nest runs no iteration at all
EmptyLoop(img) == img.shape[1] = 0 \/ img.shape[2] = 0 \/ img.shape[3] = 0

\* one iteration of the innermost (c) loop of the sequential loop nest
ConvolvePixel ==
    /\ pc = "conv"
    /\ pending = {}
    /\ \E e \in PixelEffects(mem, frame, frame.c, frame.y, frame.x) :
        /\ mem' = MemAfter(mem, frame, frame.c, frame.y, frame.x, e)
        /\ writes' = WritesAfter(writes, frame, frame.c, frame.y, frame.x, e)
        /\ stray' = IF e.kind = "stray" THEN stray + 1 ELSE stray
        /\ readlog' = readlog \cup {<<frame.pass, ReadBuffer(frame)>>}
        /\ err' = ErrorOf(e)
        /\ pc' = IF ~Continues(e) THEN "aborted"
                 ELSE IF LastIteration(mem[frame.image], frame) THEN "ret" ELSE "conv"
        /\ frame' = IF Continues(e) /\ ~LastIteration(mem[frame.image], frame)
                    THEN NextIteration(mem[frame.image], frame)
                    ELSE frame
    /\ UNCHANGED <<sigma, seperate_filters, kernel_1d, kernel_2d, pending, calls, mem0>>

(***************************************************************************)
(* main                                                                    *)
(***************************************************************************)
JointArgs == [image |-> "img", output |-> "output"]

\* the row pass storing to output instead of intermediate
FirstPassArgs_IntoOutput == [image |-> "img", output |-> "output"]

FirstPassArgs == [image |-> "img", output |-> "intermediate"]

\* the column pass reading the input image again
SecondPassArgs_FromInput == [image |-> "img", output |-> "output"]

SecondPassArgs == [image |-> "intermediate", output |-> "output"]

\* the call convolve(args.image, args.output, kernel) from main, arrays m
Call(m, args, kernel, pass) ==
    /\ frame' = NewFrame(args.image, args.output, kernel, pass)
    /\ calls' = Append(calls, CallRecord(frame'))
    /\ pc' = IF EmptyLoop(m[args.image]) THEN "ret" ELSE "conv"

\* not seperate_filters: allocate output, generate kernel_2d, call convolve
MainJoint ==
    /\ pc = "main"
    /\ ~seperate_filters
    /\ kernel_2d' = gaussian_kernel_2d(sigma)
    /\ mem' = [mem EXCEPT !["output"] = NpZeros(mem["img"].shape)]
    /\ writes' = [b \in Buffers |-> [i \in Idx(mem'[b].shape) |-> 0]]
    /\ Call(mem', JointArgs, kernel_2d', 1)
    /\ UNCHANGED <<sigma, seperate_filters, kernel_1d, err, pending, stray, readlog, mem0>>

\* seperate_filters: allocate output and intermediate, generate kernel_1d,
\* call convolve for the row pass
MainSeparable ==
    /\ pc = "main"
    /\ seperate_filters
    /\ kernel_1d' = gaussian_kernel_1d(sigma)
    /\ mem' = [mem EXCEPT !["output"] = NpZeros(mem["img"].shape),
                          !["intermediate"] = NpZeros(mem["img"].shape)]
    /\ writes' = [b \in Buffers |-> [i \in Idx(mem'[b].shape) |-> 0]]
    /\ Call(mem', FirstPassArgs, kernel_1d', 1)
    /\ UNCHANGED <<sigma, seperate_filters, kernel_2d, err, pending, stray, readlog, mem0>>

\* the row pass returned: call convolve for the column pass
MainSecondPass ==
    /\ pc = "ret"
    /\ seperate_filters
    /\ frame.pass = 1
    /\ Call(mem, SecondPassArgs, Transpose(kernel_1d), 2)
    /\ UNCHANGED <<sigma, seperate_filters, kernel_1d, kernel_2d, mem, err, pending,
                   writes, stray, readlog, mem0>>

\* the last convolve call of main returned (the image is then handed to write_image)
MainSave ==
    /\ pc = "ret"
    /\ frame.pass = IF seperate_filters THEN 2 ELSE 1
    /\ pc' = "done"
    /\ UNCHANGED <<sigma, seperate_filters, kernel_1d, kernel_2d, mem, frame, err,
                   pending, calls, writes, stray, readlog, mem0>>

(***************************************************************************)
(* Inputs of main.                                                         *)
(***************************************************************************)
\* sigma = +-1/sqrt(2 ln 2) (0.849...), 0, and -1/sqrt(2 ln 1.5) (-1.110...)
Sigmas ==
    {[sgn |-> 1, gn |-> 1, gd |-> 2], [sgn |-> 0, gn |-> 0, gd |-> 1],
     [sgn |-> -1, gn |-> 1, gd |-> 2], [sgn |-> -1, gn |-> 2, gd |-> 3]}

\* an image of background bg with the sample at index p set to fg
ImpulseImage(shape, p, fg, bg) ==
    [shape |-> shape,
     data |-> [i \in Idx(shape) |-> IF i = p THEN Num(fg) ELSE Num(bg)]]

ConstantImage(shape, k) == [shape |-> shape, data |-> [i \in Idx(shape) |-> Num(k)]]

ImagesOfShape(shape) ==
    {ImpulseImage(shape, p, fg, 0) : p \in Idx(shape), fg \in 1 .. MaxVal}
    \cup {ConstantImage(shape, k) : k \in 0 .. MaxVal}

SmallShapes == (1 .. MaxC) \X (1 .. MaxSide) \X (1 .. MaxSide)

\* images at least as large as the kernel of the positive sigma
KernelSide == AxLen([sgn |-> 1, gn |-> 1, gd |-> 2])

LargeShapes == {<<1, n, n>> : n \in KernelSide .. KernelSide + MaxPad}

\* on the large shapes: impulses of height MaxVal on the first row and on
\* the diagonal
LargeImages(shape) ==
    {ImpulseImage(shape, p, MaxVal, 0) : p \in {q \in Idx(shape) : q[2] = 0 \/ q[2] = q[3]}}

PipelineImages ==
    UNION ({ImagesOfShape(s) : s \in SmallShapes} \cup {LargeImages(s) : s \in LargeShapes})

\* the state at the entry of main(input_file, output_file, s, seperate_filters),
\* once read_image has returned img
AtMainEntry(s, img) ==
    /\ sigma = s
    /\ seperate_filters \in BOOLEAN
    /\ mem = [b \in Buffers |-> IF b = "img" THEN img ELSE NoBuffer]
    /\ mem0 = [b \in Buffers |-> NoBuffer]
    /\ kernel_1d = NoKernel
    /\ kernel_2d = NoKernel
    /\ frame = NoFrame
    /\ pc = "main"
    /\ err = ""
    /\ pending = {}
    /\ calls = <<>>
    /\ writes = [b \in Buffers |-> [i \in Idx(mem[b].shape) |-> 0]]
    /\ stray = 0
    /\ readlog = {}

\* main with a positive sigma
Init == \E s \in {t \in Sigmas : t.sgn > 0}, img \in PipelineImages : AtMainEntry(s, img)

Next == MainJoint \/ MainSeparable \/ ConvolvePixel \/ MainSecondPass \/ MainSave

Spec == Init /\ [][Next]_vars

\* main with any sigma, on the small images
InitAnySigma ==
    \E s \in Sigmas, img \in UNION {ImagesOfShape(sh) : sh \in SmallShapes} :
        AtMainEntry(s, img)

SpecAnySigma == InitAnySigma /\ [][Next]_vars

(***************************************************************************)
(* convolve called on its own: any image, any output array, any kernel.    *)
(***************************************************************************)
\* the call returned to a caller other than main
DirectReturn ==
    /\ pc = "ret"
    /\ frame.pass = 0
    /\ pc' = "done"
    /\ UNCHANGED <<sigma, seperate_filters, kernel_1d, kernel_2d, mem, frame, err,
                   pending, calls, writes, stray, readlog, mem0>>

\* a kernel of weight a with the weight at subscript q set to b
PatternKernel(h, w, q, a, b) ==
    [h |-> h, w |-> w, wt |-> [p \in KIdx(h, w) |-> IF p = q THEN Num(b) ELSE Num(a)]]

KernelSum(k) == SumRows(k.wt, k.w, k.h)

\* k scaled to weights that sum to 1, when its weights do not sum to 0
Normalized(k) == IF KernelSum(k)[1] = 0 THEN k ELSE NormalizedKernel(k.h, k.w, k.wt)

\* <<a, b>>: generic positive, one negative weight, one zero weight
WeightPairs == {<<1, 2>>, <<1, -1>>, <<1, 0>>}

OddSides == {n \in 1 .. MaxK : n % 2 = 1}

\* the kernels with one weight 1 and the others 0
OneHotKernels ==
    UNION {{PatternKernel(h, w, q, 0, 1) : q \in KIdx(h, w)} : h \in OddSides, w \in OddSides}

\* the special weight at the first or at the centre subscript
PatternKernels ==
    UNION {{PatternKernel(h, w, <<0, 0>>, ab[1], ab[2]),
            PatternKernel(h, w, <<h \div 2, w \div 2>>, ab[1], ab[2])} :
               h \in OddSides, w \in OddSides, ab \in WeightPairs}

\* the one-hot kernels, the pattern kernels scaled to sum 1, and the generic
\* positive ones as they are
OddKernels ==
    OneHotKernels \cup {Normalized(k) : k \in PatternKernels}
    \cup {k \in PatternKernels : \A p \in KIdx(k.h, k.w) : k.wt[p][1] > 0}

\* kernels with a zero or an even dimension
BadKernels ==
    {PatternKernel(hw[1], hw[2], <<0, 0>>, 1, 2) :
         hw \in {d \in (0 .. MaxK) \X (0 .. MaxK) : d[1] % 2 = 0 \/ d[2] % 2 = 0}}

\* one channel or MaxC channels, at most MaxElems elements
DirectShapes ==
    {s \in {1, MaxC} \X (1 .. MaxH) \X (1 .. MaxW) : s[1] * s[2] * s[3] <= MaxElems}

\* impulses of height MaxVal in channel 0 (the other channels are 0), and
\* constant images
DirectImages ==
    UNION {{ImpulseImage(s, <<0, p[1], p[2]>>, MaxVal, 0) :
                p \in (0 .. s[2] - 1) \X (0 .. s[3] - 1)}
           \cup {ConstantImage(s, k) : k \in {0, MaxVal}} : s \in DirectShapes}

\* output arrays of another shape than the image: one column more, one column
\* less, one row less
OtherShapes(s) ==
    {<<s[1], s[2], s[3] + 1>>} \cup {t \in {<<s[1], s[2], s[3] - 1>>, <<s[1], s[2] - 1, s[3]>>} :
                                        t[2] >= 1 /\ t[3] >= 1}

\* the calls convolve(img, output, k): any odd kernel on arrays of one shape,
\* the other kernels on arrays of one shape, and a 3 x 3 kernel on arrays of
\* different shapes
DirectCalls ==
    {<<img, img.shape, k>> : img \in DirectImages, k \in OddKernels}
    \cup {<<img, img.shape, k>> : img \in DirectImages, k \in BadKernels}
    \cup UNION {{<<img, t, PatternKernel(3, 3, <<1, 1>>, 1, 2)>> : t \in OtherShapes(img.shape)} :
                    img \in DirectImages}

\* the state at the entry of convolve(img, output, k), the output array
\* holding out
AtCallEntry(img, out, k) ==
    /\ mem = [b \in Buffers |->
                 IF b = "img" THEN img ELSE IF b = "output" THEN out ELSE NoBuffer]
    /\ frame = NewFrame("img", "output", k, 0)
    /\ calls = <<CallRecord(frame)>>
    /\ writes = [b \in Buffers |-> [i \in Idx(mem[b].shape) |-> 0]]
    /\ stray = 0
    /\ readlog = {}
    /\ pc = IF EmptyLoop(img) THEN "ret" ELSE "conv"
    /\ err = ""
    /\ sigma = NoSigma
    /\ seperate_filters = FALSE
    /\ kernel_1d = NoKernel
    /\ kernel_2d = NoKernel

InitConvolve ==
    /\ \E call \in DirectCalls : AtCallEntry(call[1], NpZeros(call[2]), call[3])
    /\ pending = {}
    /\ mem0 = [b \in Buffers |-> NoBuffer]

NextConvolve == ConvolvePixel \/ DirectReturn

SpecConvolve == InitConvolve /\ [][NextConvolve]_vars

(***************************************************************************)
(* The loop nest run in an arbitrary order: the body for any pixel not yet *)
(* computed, as independent workers would run it.                          *)
(***************************************************************************)
AnyOrderPixel ==
    /\ pc = "conv"
    /\ \E i \in pending :
        \E e \in PixelEffects(mem, frame, i[1], i[2], i[3]) :
            /\ mem' = MemAfter(mem, frame, i[1], i[2], i[3], e)
            /\ writes' = WritesAfter(writes, frame, i[1], i[2], i[3], e)
            /\ stray' = IF e.kind = "stray" THEN stray + 1 ELSE stray
            /\ readlog' = readlog \cup {<<frame.pass, ReadBuffer(frame)>>}
            /\ err' = ErrorOf(e)
            /\ pending' = pending \ {i}
            /\ pc' = IF ~Continues(e) THEN "aborted"
                     ELSE IF pending' = {} THEN "ret" ELSE "conv"
    /\ UNCHANGED <<sigma, seperate_filters, kernel_1d, kernel_2d, frame, calls, mem0>>

\* the subscript <<c, y, x>> of iteration n (0-based) of  for x: for y: for c
IterationAt(img, n) ==
    <<n % img.shape[1],
      (n \div img.shape[1]) % img.shape[2],
      n \div (img.shape[1] * img.shape[2])>>

RECURSIVE SequentialRun(_, _, _)
\* the arrays after the first n iterations of the sequential loop nest, and
\* whether all of them completed
SequentialRun(m, fr, n) ==
    IF n = 0 THEN [ok |-> TRUE, mem |-> m]
    ELSE LET prev == SequentialRun(m, fr, n - 1)
             i == IterationAt(m[fr.image], n - 1)
             e == CHOOSE e \in PixelEffects(prev.mem, fr, i[1], i[2], i[3]) : TRUE
         IN IF ~prev.ok \/ ~Continues(e) THEN [ok |-> FALSE, mem |-> prev.mem]
            ELSE [ok |-> TRUE, mem |-> MemAfter(prev.mem, fr, i[1], i[2], i[3], e)]

ParShapes == {s \in SmallShapes : s[1] * s[2] * s[3] <= MaxPar}

\* the output array may hold anything when convolve is called
ParOutputs(shape) ==
    {NpZeros(shape)} \cup {ImpulseImage(shape, p, MaxVal, 0) : p \in Idx(shape)}

ParKernels == OneHotKernels \cup PatternKernels

InitAnyOrder ==
    /\ \E s \in ParShapes : \E img \in ImagesOfShape(s), out \in ParOutputs(s), k \in ParKernels :
           /\ AtCallEntry(img, out, k)
           /\ pending = Idx(s)
    /\ mem0 = mem

NextAnyOrder == AnyOrderPixel \/ DirectReturn

SpecAnyOrder == InitAnyOrder /\ [][NextAnyOrder]_vars

(***************************************************************************)
(* Properties of main.                                                     *)
(***************************************************************************)
ExpectedCalls ==
    IF seperate_filters
    THEN <<[image |-> "img", output |-> "intermediate", kh |-> 1, kw |-> KernelSide],
           [image |-> "intermediate", output |-> "output", kh |-> KernelSide, kw |-> 1]>>
    ELSE <<[image |-> "img", output |-> "output", kh |-> KernelSide, kw |-> KernelSide]>>

ExpectedReads ==
    IF seperate_filters THEN {<<1, "img">>, <<2, "intermediate">>} ELSE {<<1, "img">>}

AllWrittenOnce(b) == \A i \in DOMAIN writes[b] : writes[b][i] = 1

NeverWritten(b) == \A i \in DOMAIN writes[b] : writes[b][i] = 0

\* C3: in separable mode main invokes convolve exactly twice, the row pass
\* with kernel_1d from img into intermediate and then the column pass with
\* the transposed kernel from intermediate into output; the column pass
\* starts when every element of intermediate has been written, and reads
\* intermediate only; in joint mode main invokes convolve exactly once, with
\* kernel_2d from img into output; no invocation has the same array as image
\* and output, and img is never written.
C3_TwoPassesThroughIntermediate ==
    pc # "main" =>
        /\ Len(calls) <= Len(ExpectedCalls)
        /\ calls = SubSeq(ExpectedCalls, 1, Len(calls))
        /\ pc = "done" => calls = ExpectedCalls /\ AllWrittenOnce("output")
        /\ \A n \in 1 .. Len(calls) : calls[n].image # calls[n].output
        /\ readlog \subseteq ExpectedReads
        /\ NeverWritten("img")
        /\ mem["img"].shape = mem["output"].shape
        /\ frame.pass = Len(calls)
        /\ IF seperate_filters
           THEN /\ frame.pass = 1 => frame.kernel = kernel_1d /\ NeverWritten("output")
                /\ frame.pass = 2 => /\ frame.kernel.h = kernel_1d.w
                                     /\ frame.kernel.w = 1
                                     /\ \A j \in 0 .. kernel_1d.w - 1 :
                                            frame.kernel.wt[<<j, 0>>] = kernel_1d.wt[<<0, j>>]
                                     /\ AllWrittenOnce("intermediate")
           ELSE /\ frame.kernel = kernel_2d
                /\ DOMAIN writes["intermediate"] = {}

\* a separable run finished on an image of more than one pixel per channel
C3_Witness ==
    /\ pc = "done"
    /\ seperate_filters
    /\ Len(calls) = 2
    /\ mem["img"].shape[2] > 1
    /\ mem["img"].shape[3] > 1
    /\ mem["intermediate"] # mem["img"]
    /\ mem["output"] # mem["intermediate"]

\* the footprint of the h x w kernel centred on (y, x) lies inside the image
Interior(img, h, w, y, x) ==
    /\ y - h \div 2 >= 0
    /\ y + h \div 2 <= img.shape[2] - 1
    /\ x - w \div 2 >= 0
    /\ x + w \div 2 <= img.shape[3] - 1

\* what convolve(img, ., k2) stores to element i
JointValue(img, k2, i) ==
    LET acc == Accumulate(img, k2, i[1], i[2], i[3], UCount(img, k2, i[3]))
    IN FDiv(acc.value, acc.total)

\* k2 is the outer product of the row kernel k1 with itself
OuterProduct(k1, k2) ==
    /\ k2.h = k1.w
    /\ k2.w = k1.w
    /\ \A p \in KIdx(k2.h, k2.w) :
           k2.wt[p] = FMul(k1.wt[<<0, p[1]>>], k1.wt[<<0, p[2]>>])

\* C4: the normalized 2D kernel is the outer product of the normalized 1D
\* kernel with itself, and at every pixel whose whole footprint lies inside
\* the image the output of the separable run equals what the joint
\* convolution of img with the 2D kernel stores there.
C4_SeparableEqualsJointInside ==
    pc = "done" /\ seperate_filters =>
        LET k2 == gaussian_kernel_2d(sigma)
        IN /\ OuterProduct(kernel_1d, k2)
           /\ \A i \in Idx(mem["img"].shape) :
                  Interior(mem["img"], k2.h, k2.w, i[2], i[3]) =>
                      mem["output"].data[i] = JointValue(mem["img"], k2, i)

\* a separable run finished with an interior pixel that the blur changed
C4_Witness ==
    /\ pc = "done"
    /\ seperate_filters
    /\ \E i \in Idx(mem["img"].shape) :
           /\ Interior(mem["img"], KernelSide, KernelSide, i[2], i[3])
           /\ mem["output"].data[i] # Zero
           /\ mem["output"].data[i] # mem["img"].data[i]
           /\ mem["output"].data[i] # mem["intermediate"].data[i]

\* the kernel main generated
GeneratedKernel == IF seperate_filters THEN kernel_1d ELSE kernel_2d

\* C9: once the generator has been called, a sigma <= 0 has ended the run in
\* an InvalidParameter error and no convolve call was made, and a sigma > 0
\* has given a kernel of odd side 2 * (3 * ceil(sigma)) + 1.
C9_SigmaChecked ==
    pc # "main" =>
        IF sigma.sgn <= 0
        THEN err = "InvalidParameter" /\ pc = "aborted" /\ calls = <<>>
        ELSE /\ GeneratedKernel.w = 2 * (SupportFactor * CeilAbs(sigma)) + 1
             /\ GeneratedKernel.w % 2 = 1
             /\ GeneratedKernel.h = IF seperate_filters THEN 1 ELSE GeneratedKernel.w

(***************************************************************************)
(* Properties of one convolve call.                                        *)
(***************************************************************************)
OddKernel(k) == k.h % 2 = 1 /\ k.w % 2 = 1

SameShape == mem[frame.image].shape = mem[frame.output].shape

Returned == pc \in {"ret", "done"}

Ended == pc \in {"ret", "done", "aborted"}

\* the call under way: an odd kernel on arrays of one shape
ValidCall == pc # "main" /\ OddKernel(frame.kernel) /\ SameShape

RECURSIVE RefRow(_, _, _, _, _, _, _)
\* the reference sums over the kernel positions (i, j), j < n: the position
\* is skipped when (y + i - kH div 2, x + j - kW div 2) is outside the image
RefRow(img, k, c, y, x, i, n) ==
    IF n = 0 THEN [value |-> Zero, total |-> Zero]
    ELSE LET prev == RefRow(img, k, c, y, x, i, n - 1)
             v == y + i - k.h \div 2
             u == x + (n - 1) - k.w \div 2
         IN IF v < 0 \/ v >= img.shape[2] \/ u < 0 \/ u >= img.shape[3]
            THEN prev
            ELSE [value |-> FAdd(prev.value, FMul(img.data[<<c, v, u>>], k.wt[<<i, n - 1>>])),
                  total |-> FAdd(prev.total, k.wt[<<i, n - 1>>])]

RECURSIVE RefRows(_, _, _, _, _, _)
\* the reference sums over the kernel rows i < m
RefRows(img, k, c, y, x, m) ==
    IF m = 0 THEN [value |-> Zero, total |-> Zero]
    ELSE LET prev == RefRows(img, k, c, y, x, m - 1)
             row == RefRow(img, k, c, y, x, m - 1, k.w)
         IN [value |-> FAdd(prev.value, row.value), total |-> FAdd(prev.total, row.total)]

\* value and total of the reference at element i
Reference(img, k, i) == RefRows(img, k, i[1], i[2], i[3], k.h)

\* the weights of the footprint of no pixel of the image sum to zero
NoZeroTotal(img, k) ==
    \A y \in 0 .. img.shape[2] - 1, x \in 0 .. img.shape[3] - 1 :
        Reference(img, k, <<0, y, x>>).total[1] # 0

Image == mem[frame.image]

Output == mem[frame.output]

Written(i) == writes[frame.output][i] > 0

Before(i, fr) ==
    \/ i[3] < fr.x
    \/ i[3] = fr.x /\ i[2] < fr.y
    \/ i[3] = fr.x /\ i[2] = fr.y /\ i[1] < fr.c

IsConstant(img) == \A i \in Idx(img.shape) : img.data[i] = img.data[<<0, 0, 0>>]

SumsToOne(k) == KernelSum(k) = Num(1)

Centre(k) == k.wt[<<k.h \div 2, k.w \div 2>>]

\* C6: for an image one pixel wide, and either one pixel high or with a
\* kernel one row high, and an odd kernel whose centre weight is not zero,
\* the call does not raise, every element it has written holds the input
\* element, and it leaves output equal to the image.
C6_OnePixelWide ==
    ValidCall /\ Image.shape[3] = 1 /\ (Image.shape[2] = 1 \/ frame.kernel.h = 1)
              /\ Centre(frame.kernel)[1] # 0 =>
        /\ pc # "aborted"
        /\ \A i \in Idx(Output.shape) : Written(i) => Output.data[i] = Image.data[i]
        /\ Returned => Output = Image

\* a call returned on an image one pixel wide and several high that is not
\* constant, with a kernel of one row and several different weights
C6_Witness ==
    /\ ValidCall
    /\ pc = "done"
    /\ Image.shape[3] = 1
    /\ Image.shape[2] > 1
    /\ ~IsConstant(Image)
    /\ frame.kernel.h = 1
    /\ frame.kernel.w = 3
    /\ Centre(frame.kernel)[1] # 0
    /\ frame.kernel.wt[<<0, 0>>] # Zero
    /\ Output = Image

\* C6 as stated: when a call with an odd kernel on an image one pixel wide
\* returns, every element of output holds the input element.
C6_Original ==
    ValidCall /\ Image.shape[3] = 1 /\ Returned => Output = Image

NonNegative(k) == \A p \in KIdx(k.h, k.w) : k.wt[p][1] >= 0

Samples(img) == {img.data[i] : i \in Idx(img.shape)}

\* v lies between two of the values vals
WithinRange(v, vals) == \E a, b \in vals : FLeq(a, v) /\ FLeq(v, b)

\* C7: for an odd kernel of non-negative weights with a positive centre
\* weight, the centre tap is among the taps of every pixel, the total of the
\* pixel the loop is at is positive, the call never raises, and every
\* element it has written lies between the smallest and the largest sample
\* of the image.
C7_WeightedAverage ==
    ValidCall /\ NonNegative(frame.kernel) /\ Centre(frame.kernel)[1] > 0 =>
        /\ pc # "aborted"
        /\ \A y \in 0 .. Image.shape[2] - 1, x \in 0 .. Image.shape[3] - 1 :
               /\ x_min(frame.kernel, x) <= x
               /\ x <= x_max(Image, frame.kernel, x)
               /\ y_min(frame.kernel, y) <= y
               /\ y <= y_max(Image, frame.kernel, y)
        /\ pc = "conv" =>
               Accumulate(Image, frame.kernel, frame.c, frame.y, frame.x,
                          UCount(Image, frame.kernel, frame.x)).total[1] > 0
        /\ LET vals == Samples(Image)
           IN \A i \in Idx(Output.shape) : Written(i) => WithinRange(Output.data[i], vals)

\* a call returned with a kernel that has zero weights beside a positive
\* centre, on an image that is not constant, leaving a value strictly between
\* the smallest and the largest sample
C7_Witness ==
    /\ ValidCall
    /\ pc = "done"
    /\ NonNegative(frame.kernel)
    /\ Centre(frame.kernel)[1] > 0
    /\ frame.kernel.w = 3
    /\ ~IsConstant(Image)
    /\ \E i \in Idx(Output.shape) : Output.data[i][1] > 0 /\ Output.data[i][1] < Output.data[i][2]

\* C8: a call with a kernel whose height or width is even or zero, or with
\* an output of another shape than the image, is rejected at its entry (with
\* InvalidKernel, respectively ShapeMismatch): it writes no element, inside
\* or outside the arrays, and does not return normally.
C8_RejectedAtEntry ==
    pc # "main" /\ (~OddKernel(frame.kernel) \/ ~SameShape) =>
        /\ \A b \in Buffers : NeverWritten(b)
        /\ stray = 0
        /\ ~Returned

(***************************************************************************)
(* Properties of the loop nest run in any order.                           *)
(***************************************************************************)
\* the arrays and the outcome of the sequential loop nest on the arrays that
\* convolve was called with
Sequential ==
    SequentialRun(mem0, frame,
                  mem0[frame.image].shape[1] * mem0[frame.image].shape[2]
                      * mem0[frame.image].shape[3])

=============================================================================
